---- MODULE Spec2Model ----
(***************************************************************************)
(* Trail-Mate client screens: the InfoTab component (trip info and weather *)
(* with cache-first loading) and the Home screen (favorites and plans).    *)
(* Every await of the source is a yield point: an asynchronous function is *)
(* a run record whose pc names the call it is awaiting.                    *)
(***************************************************************************)
EXTENDS Integers, Sequences, FiniteSets, TLC

\* ------------------------------------------------------------------ bounds
\* events after the mount: re-renders with new props, temperature unit changes
MaxEvents == 1

\* ------------------------------------------------------------ JS values
\* null / undefined / an absent optional field; a present value is <<v>>
Null == <<>>
Some(x) == <<x>>
Val(o) == o[1]
\* undefined or empty string: both falsy in `!currentTripId`
NoId == ""

TripIds == {"t1", "t2"}
PlanIds == {"p1", "p2"}
\* the order in which the backend returns rows
TripOrder == <<"t1", "t2">>
PlanOrder == <<"p1", "p2">>
\* the signed-in user
UserId == "u1"

\* error: string | null
\* activeTab while undefined, and a missing value under the key "activeTab"
NoTab == ""
Tabs == {"favorites", "plans"}

NoError == "null"
ErrNoId == "No trip ID available."
ErrNotFound == "Trip not found."
ErrFailed == "Failed to load trip info."

\* ------------------------------------------------------------ Trip records
OptionalFields ==
  {"coordinates", "dateRange", "cellService", "amenities", "highlights", "warnings"}

CoordinatesOf(id) == [latitude |-> IF id = "t1" THEN 45 ELSE 46, longitude |-> 7]

\* A Trip with every optional field present and no schedule array.
FullTrip(id) ==
  [id |-> id,
   userId |-> UserId,
   bookmarked |-> TRUE,
   schedule |-> Null,
   coordinates |-> Some(CoordinatesOf(id)),
   dateRange |-> Some([startDate |-> "d1"]),
   cellService |-> Some("No service"),
   amenities |-> Some(<<"parking">>),
   highlights |-> Some(<<"view">>),
   warnings |-> Some(<<"bears">>)]

\* The same Trip with the optional fields named in `absent` left out.
TripWithout(id, absent) ==
  [f \in DOMAIN FullTrip(id) |->
     IF f \in absent THEN Null ELSE FullTrip(id)[f]]

\* A row of the backend table `plans`; startDate is preferences.dateRange.startDate
\* as a day number, 0 when the plan has none.
PlanRow(id) ==
  [plan_id |-> id,
   userId |-> UserId,
   tripIds |-> IF id = "p1" THEN Some(<<"t1">>) ELSE Null,
   startDate |-> IF id = "p1" THEN 20 ELSE 10]

\* The subsets of optional fields the backend row of trip t1 may lack.
AbsentChoices ==
  { {}, {"coordinates"}, {"cellService"},
    {"dateRange", "amenities", "highlights", "warnings"} }

\* A trail head on the equator: latitude is the number 0
OnEquator(id) == [latitude |-> 0, longitude |-> CoordinatesOf(id).longitude]

\* The rows the backend may hold for trip t1
RowChoices ==
  {TripWithout("t1", absent) : absent \in AbsentChoices}
    \cup {[FullTrip("t1") EXCEPT !.coordinates = Some(OnEquator("t1"))]}

\* The props the parent screen passes: tripId?, tripData?
PropChoices ==
  { [tripId |-> "t1", tripData |-> Null],
    [tripId |-> "t2", tripData |-> Some(FullTrip("t1"))],
    [tripId |-> NoId, tripData |-> Null],
    [tripId |-> NoId, tripData |-> Some([FullTrip("t2") EXCEPT !.schedule = Some("array")])] }

\* --------------------------------------------------------------- weather
Units == {"F", "C"}

\* `${lat},${lon},${date}`
CacheKey(lat, lon, date) == <<lat, lon, date>>

\* The provider's reply for a key: current conditions, or an error payload
\* (no weather/main/sys fields).
OkPayload(key) == [cod |-> 200, main |-> Some([temp |-> key[1] + 5]), key |-> key]
ErrPayload(key) == [cod |-> 401, main |-> Null, key |-> key]

\* useTemperatureUnit().convertTemperature: the API is asked for imperial units
convertTemperature(f, unit) ==
  IF unit = "F" THEN [value |-> f, unit |-> "F"]
  ELSE [value |-> ((f - 32) * 5) \div 9, unit |-> "C"]

\* The object handed to setWeather
WeatherView(data, unit) ==
  LET t == convertTemperature(Val(data.main).temp, unit)
  IN  [temperature |-> <<t.value, t.unit>>, place |-> data.key]

VARIABLES
  mounted,          \* the screen component this behaviour follows
  tripId, tripData, \* InfoTab props
  tripInfo, loading, error, weather,   \* InfoTab useState
  temperatureUnit,  \* useTemperatureUnit()
  runs,             \* fetchTripInfo invocations that have not returned
  wruns,            \* fetchWeather invocations that have not returned
  unhandled,        \* operations whose promise was rejected (nothing catches it)
  storage,          \* AsyncStorage
  trailCache,       \* cacheService: trail data by trip id
  weatherCache,     \* cacheService: weather payload by cache key
  dbTrips,          \* backend table `trips`: rows by trip_id
  gets,             \* weather provider: cache keys whose GET got a response
  dbPlans,          \* backend table `plans`: rows by plan_id
  chatCache,        \* cacheService: chat messages by trip id
  plans, trips, tripDates, deletingItems,   \* Home useState
  activeTab,        \* Home useState: the tab on display, "" while undefined
  dialog,           \* the confirmation Alert on screen, if any
  alerts,           \* the error Alerts shown
  hruns,            \* Home invocations that have not returned
  events,           \* number of events so far
  last              \* the invocation that returned, or the dialog button pressed, last

vars == <<mounted, tripId, tripData, tripInfo, loading, error, weather,
          temperatureUnit, runs, wruns, unhandled, storage, trailCache,
          weatherCache, dbTrips, gets, dbPlans, chatCache, plans, trips,
          tripDates, deletingItems, activeTab, dialog, alerts, hruns, events, last>>

props == <<tripId, tripData>>
infoState == <<tripInfo, loading, error, weather>>
services == <<storage, trailCache, weatherCache, dbTrips>>
homeVars == <<dbPlans, chatCache, plans, trips, tripDates, deletingItems,
              activeTab, dialog, alerts, hruns>>
infoVars == <<tripId, tripData, tripInfo, loading, error, weather,
              temperatureUnit, runs, wruns, unhandled, storage, weatherCache, gets>>

WeatherKeys == { CacheKey(CoordinatesOf(id).latitude, CoordinatesOf(id).longitude, d) :
                   id \in TripIds, d \in {"d1", ""} }

RemoveAt(s, i) == [j \in 1..(Len(s) - 1) |-> IF j < i THEN s[j] ELSE s[j + 1]]

\* ------------------------------------------------------------ cacheService
getCachedTrailData(id) == trailCache[id]
cacheTrailData(id, row) == [trailCache EXCEPT ![id] = Some(row)]
getCachedWeatherData(key) == weatherCache[key]
cacheWeatherData(key, data) == [weatherCache EXCEPT ![key] = Some(data)]

\* --------------------------------------------------------------- InfoTab
\* The rejections of the promise fetchWeather returns
RejectedField == "fetchWeather: cannot read 'latitude' of undefined"
RejectedCache == "fetchWeather: getCachedWeatherData rejected"

\* fetchWeather up to its first await, run by the effect on [tripInfo, temperatureUnit].
\* "return": the guard returns; "throw": reading .latitude of undefined;
\* "await": getCachedWeatherData has been called.
WeatherEntry(info) ==
  IF info = Null THEN "return"
  ELSE IF Val(info).coordinates = Null THEN "throw"
  ELSE IF Val(Val(info).coordinates).latitude = 0
          \/ Val(Val(info).coordinates).longitude = 0 THEN "return"
  ELSE "await"

NewWRun(info, unit) ==
  LET t == Val(info)
      c == Val(t.coordinates)
      date == IF t.dateRange # Null /\ Val(t.dateRange).startDate # ""
              THEN Val(t.dateRange).startDate ELSE ""
  IN  [pc |-> "getCachedWeatherData",
       cacheKey |-> CacheKey(c.latitude, c.longitude, date),
       unit |-> unit,
       data |-> Null,
       gets |-> 0]

\* The effect on [tripInfo, temperatureUnit] with the new values.
WeatherEffect(info, unit) ==
  /\ wruns' = IF WeatherEntry(info) = "await"
              THEN Append(wruns, NewWRun(info, unit)) ELSE wruns
  /\ unhandled' = IF WeatherEntry(info) = "throw"
                  THEN unhandled \cup {RejectedField} ELSE unhandled

\* setTripInfo(v) with a fresh object: state changes, the weather effect re-runs.
SetTripInfo(v) ==
  /\ tripInfo' = Some(v)
  /\ WeatherEffect(Some(v), temperatureUnit)

\* tripData.id is taken first and the tripId prop only without it
ResolveTripIdDataFirst(id, td) ==
  IF td # Null /\ Val(td).id # NoId THEN Val(td).id
  ELSE id

\* let currentTripId = tripId; if (!currentTripId && tripData?.id) currentTripId = tripData.id
ResolveTripId(id, td) ==
  IF id # NoId THEN id
  ELSE IF td # Null /\ Val(td).id # NoId THEN Val(td).id
  ELSE NoId

\* fetchTripInfo up to its first await
NewRun(p) ==
  [pc |-> IF ResolveTripId(p.tripId, p.tripData) # NoId THEN "setItem" ELSE "getItem",
   tripData |-> p.tripData,
   currentTripId |-> ResolveTripId(p.tripId, p.tripData),
   data |-> Null,
   queries |-> 0]

\* A re-render with changed props: the effect on [tripId, tripData]
\* calls fetchTripInfo, which runs to its first await.
Render(p) ==
  /\ mounted = "InfoTab"
  /\ events < MaxEvents
  /\ p.tripId # tripId \/ p.tripData # tripData \/ p.tripData # Null
  /\ events' = events + 1
  /\ tripId' = p.tripId
  /\ tripData' = p.tripData
  /\ loading' = TRUE
  /\ runs' = Append(runs, NewRun(p))
  /\ UNCHANGED <<mounted, homeVars, tripInfo, error, weather, temperatureUnit, wruns,
                 unhandled, services, gets, last>>

\* there is no finally block: loading is left as it is
FinishWithoutFinally(r, out) ==
  /\ loading' = loading
  /\ runs' = RemoveAt(runs, r)
  /\ last' = [op |-> "fetchTripInfo", out |-> out, key |-> runs[r].currentTripId]

\* fetchTripInfo returns: setLoading(false), by the early return or the finally
Finish(r, out) ==
  /\ loading' = FALSE
  /\ runs' = RemoveAt(runs, r)
  /\ last' = [op |-> "fetchTripInfo", out |-> out, key |-> runs[r].currentTripId]

\* the catch block only logs: setError is not called
CatchSilently(r) ==
  /\ error' = error
  /\ Finish(r, "threw")
  /\ UNCHANGED <<tripInfo, weather, wruns, unhandled>>

\* catch (err) { setError("Failed to load trip info.") } finally { setLoading(false) }
Catch(r) ==
  /\ error' = ErrFailed
  /\ Finish(r, "threw")
  /\ UNCHANGED <<tripInfo, weather, wruns, unhandled>>

\* The code after the storage call, up to the next await or the end.
AfterStorage(r, cur) ==
  LET td == runs[r].tripData IN
  IF td # Null /\ Val(td).schedule # Null
  THEN /\ tripInfo' = td
       /\ WeatherEffect(td, temperatureUnit)
       /\ loading' = FALSE
       /\ runs' = RemoveAt(runs, r)
       /\ last' = [op |-> "fetchTripInfo", out |-> "props", key |-> cur]
       /\ UNCHANGED <<error, weather>>
  ELSE IF cur # NoId
  THEN /\ runs' = [runs EXCEPT ![r].pc = "getCachedTrailData",
                               ![r].currentTripId = cur, ![r].tripData = Null]
       /\ UNCHANGED <<infoState, wruns, unhandled, last>>
  ELSE /\ error' = ErrNoId
       /\ loading' = FALSE
       /\ runs' = RemoveAt(runs, r)
       /\ last' = [op |-> "fetchTripInfo", out |-> "noid", key |-> cur]
       /\ UNCHANGED <<tripInfo, weather, wruns, unhandled>>

\* the id is not stored
StoreSelectedSkipped(r) == storage

\* AsyncStorage.setItem("selectedTripId", currentTripId)
StoreSelected(r) == [storage EXCEPT !.selectedTripId = runs[r].currentTripId]

\* await AsyncStorage.setItem("selectedTripId", currentTripId)
SetItemDone(r) ==
  /\ r \in DOMAIN runs /\ runs[r].pc = "setItem"
  /\ \/ /\ storage' = StoreSelected(r)
        /\ AfterStorage(r, runs[r].currentTripId)
     \/ /\ Catch(r)
        /\ UNCHANGED storage
  /\ UNCHANGED <<mounted, homeVars, props, temperatureUnit, trailCache, weatherCache,
                 dbTrips, gets, events>>

\* await AsyncStorage.getItem("selectedTripId")
GetItemDone(r) ==
  /\ r \in DOMAIN runs /\ runs[r].pc = "getItem"
  /\ \/ AfterStorage(r, storage.selectedTripId)
     \/ Catch(r)
  /\ UNCHANGED <<mounted, homeVars, props, temperatureUnit, services, gets, events>>

\* the cache is never consulted: every lookup counts as a miss
TrailCacheNeverHit(cached) == FALSE

\* if (cached)
TrailCacheHit(cached) == cached # Null

\* await getCachedTrailData(currentTripId)
GetCachedTrailDataDone(r) ==
  /\ r \in DOMAIN runs /\ runs[r].pc = "getCachedTrailData"
  /\ LET cached == getCachedTrailData(runs[r].currentTripId) IN
     \/ /\ TrailCacheHit(cached)
        /\ SetTripInfo(Val(cached))
        /\ Finish(r, "cache")
        /\ UNCHANGED <<error, weather>>
     \/ /\ ~TrailCacheHit(cached)
        /\ runs' = [runs EXCEPT ![r].pc = "query", ![r].queries = @ + 1]
        /\ UNCHANGED <<infoState, wruns, unhandled, last>>
     \/ Catch(r)
  /\ UNCHANGED <<mounted, homeVars, props, temperatureUnit, services, gets, events>>

\* await supabase.from('trips').select().eq('trip_id', currentTripId)
\* resolves to { data, error }: the rows, or data = null with an error; or rejects.
QueryDone(r) ==
  /\ r \in DOMAIN runs /\ runs[r].pc = "query"
  /\ \/ \E data \in {Some(dbTrips[runs[r].currentTripId]), Null} :
          IF data # Null /\ Len(Val(data)) > 0
          THEN /\ SetTripInfo(Val(data)[1])
               /\ runs' = [runs EXCEPT ![r].pc = "cacheTrailData", ![r].data = data]
               /\ UNCHANGED <<loading, error, weather, last>>
          ELSE /\ error' = ErrNotFound
               /\ Finish(r, "notfound")
               /\ UNCHANGED <<tripInfo, weather, wruns, unhandled>>
     \/ Catch(r)
  /\ UNCHANGED <<mounted, homeVars, props, temperatureUnit, services, gets, events>>

\* the row is not written to the cache
WriteTrailSkipped(r) == trailCache

\* the row is written under the stored trip id, not the id it was queried by
WriteTrailUnderStoredId(r) ==
  IF storage.selectedTripId \in TripIds
  THEN cacheTrailData(storage.selectedTripId, Val(runs[r].data)[1])
  ELSE trailCache

\* cacheTrailData(currentTripId, data[0])
WriteTrail(r) == cacheTrailData(runs[r].currentTripId, Val(runs[r].data)[1])

\* await cacheTrailData(currentTripId, data[0])
CacheTrailDataDone(r) ==
  /\ r \in DOMAIN runs /\ runs[r].pc = "cacheTrailData"
  /\ \/ /\ trailCache' = WriteTrail(r)
        /\ Finish(r, "backend")
        /\ UNCHANGED <<tripInfo, error, weather, wruns, unhandled>>
     \/ /\ Catch(r)
        /\ UNCHANGED trailCache
  /\ UNCHANGED <<mounted, homeVars, props, temperatureUnit, storage, weatherCache,
                 dbTrips, gets, events>>

\* The user switches the temperature unit: the weather effect re-runs.
ChangeUnit ==
  /\ mounted = "InfoTab"
  /\ events < MaxEvents
  /\ events' = events + 1
  /\ \E u \in Units \ {temperatureUnit} :
       /\ temperatureUnit' = u
       /\ WeatherEffect(tripInfo, u)
  /\ UNCHANGED <<mounted, homeVars, props, infoState, runs, services, gets, last>>

\* fetchWeather returns
WFinish(w, out) ==
  /\ wruns' = RemoveAt(wruns, w)
  /\ last' = [op |-> "fetchWeather", out |-> out, key |-> wruns[w].cacheKey]

\* try { ...setWeather({...}) } catch { console.error }
Process(w, data, out) ==
  IF data.main # Null
  THEN /\ weather' = Some(WeatherView(data, wruns[w].unit))
       /\ WFinish(w, out)
  ELSE /\ WFinish(w, "processFailed")
       /\ UNCHANGED weather

\* the cache is never consulted: every lookup counts as a miss
WeatherCacheNeverHit(cached) == FALSE

\* only a cached payload with current conditions counts as a hit
WeatherCacheHitIfUsable(cached) == cached # Null /\ Val(cached).main # Null

\* if (cached)
WeatherCacheHit(cached) == cached # Null

\* await getCachedWeatherData(cacheKey): not inside any try
GetCachedWeatherDataDone(w) ==
  /\ w \in DOMAIN wruns /\ wruns[w].pc = "getCachedWeatherData"
  /\ LET cached == getCachedWeatherData(wruns[w].cacheKey) IN
     \/ /\ WeatherCacheHit(cached)
        /\ Process(w, Val(cached), "cache")
        /\ UNCHANGED unhandled
     \/ /\ ~WeatherCacheHit(cached)
        /\ wruns' = [wruns EXCEPT ![w].pc = "fetch", ![w].gets = @ + 1]
        /\ UNCHANGED <<weather, unhandled, last>>
     \/ /\ WFinish(w, "rejected")
        /\ unhandled' = unhandled \cup {RejectedCache}
        /\ UNCHANGED weather
  /\ UNCHANGED <<mounted, homeVars, props, tripInfo, loading, error, temperatureUnit,
                 runs, services, gets, events>>

\* await fetch(url)
FetchDone(w) ==
  /\ w \in DOMAIN wruns /\ wruns[w].pc = "fetch"
  /\ \/ /\ wruns' = [wruns EXCEPT ![w].pc = "json"]
        /\ gets' = gets \cup {wruns[w].cacheKey}
        /\ UNCHANGED last
     \/ /\ WFinish(w, "fetchFailed")
        /\ UNCHANGED gets
  /\ UNCHANGED <<mounted, homeVars, props, infoState, temperatureUnit, runs, unhandled,
                 services, events>>

\* data = await response.json()
JsonDone(w) ==
  /\ w \in DOMAIN wruns /\ wruns[w].pc = "json"
  /\ \/ /\ \E data \in {OkPayload(wruns[w].cacheKey), ErrPayload(wruns[w].cacheKey)} :
             wruns' = [wruns EXCEPT ![w].pc = "cacheWeatherData", ![w].data = Some(data)]
        /\ UNCHANGED last
     \/ WFinish(w, "jsonFailed")
  /\ UNCHANGED <<mounted, homeVars, props, infoState, temperatureUnit, runs, unhandled,
                 services, gets, events>>

\* await cacheWeatherData(cacheKey, data)
CacheWeatherDataDone(w) ==
  /\ w \in DOMAIN wruns /\ wruns[w].pc = "cacheWeatherData"
  /\ \/ /\ weatherCache' = cacheWeatherData(wruns[w].cacheKey, Val(wruns[w].data))
        /\ Process(w, Val(wruns[w].data), "api")
     \/ /\ WFinish(w, "cacheWriteFailed")
        /\ UNCHANGED <<weather, weatherCache>>
  /\ UNCHANGED <<mounted, homeVars, props, tripInfo, loading, error, temperatureUnit,
                 runs, unhandled, storage, trailCache, dbTrips, gets, events>>

\* What the component returns.
View ==
  IF loading THEN "loading"
  ELSE IF error # NoError \/ tripInfo = Null THEN "error"
  ELSE IF Val(tripInfo).cellService = Null THEN "TypeError"
  ELSE "content"

\* {weather?.temperature ?? "--"}
WeatherField ==
  IF weather = Null THEN "--" ELSE ToString(Val(weather).temperature)

\* ------------------------------------------------------------------ Home
Range(s) == {s[i] : i \in DOMAIN s}

\* Array.prototype.sort((a, b) => dateA - dateB): ascending and stable
InsertByDate(x, s, date) ==
  LET n == Cardinality({i \in DOMAIN s : date[s[i]] <= date[x]})
  IN  SubSeq(s, 1, n) \o <<x>> \o SubSeq(s, n + 1, Len(s))

RECURSIVE SortByDate(_, _)
SortByDate(s, date) ==
  IF s = <<>> THEN <<>>
  ELSE InsertByDate(s[Len(s)], SortByDate(SubSeq(s, 1, Len(s) - 1), date), date)

\* from('plans').select('*').eq('userId', user.id): the ids of the rows returned
PlansOf(db, u) ==
  SelectSeq(PlanOrder, LAMBDA id : db[id] # <<>> /\ db[id][1].userId = u)

\* from('trips').select('*').eq('userId', user.id).eq('bookmarked', true)
BookmarkedOf(db, u) ==
  SelectSeq(TripOrder,
            LAMBDA id : db[id] # <<>> /\ db[id][1].userId = u /\ db[id][1].bookmarked)

\* the sort key of fetchPlans: the plan's start date, 0 when it has none
PlanDates(db) == [id \in PlanIds |-> IF db[id] = <<>> THEN 0 ELSE db[id][1].startDate]

\* the dates mapping of fetchTrips: each trip gets the start date of the last
\* plan (in the order returned) that lists it and has a start date; 0 is none
DatesOf(db, u) ==
  LET pl == PlansOf(db, u)
      lists(i, t) == /\ db[pl[i]][1].tripIds # Null
                     /\ db[pl[i]][1].startDate # 0
                     /\ t \in Range(Val(db[pl[i]][1].tripIds))
  IN  [t \in TripIds |->
         LET hits == {i \in DOMAIN pl : lists(i, t)}
         IN  IF hits = {} THEN 0
             ELSE db[pl[CHOOSE i \in hits : \A j \in hits : j <= i]][1].startDate]

Filter(s, out) == SelectSeq(s, LAMBDA x : x \notin out)

AlertTrip == "Could not remove trip from favorites."
AlertPlan == "Could not delete plan or its trips."

\* An invocation of a Home operation. list: the local tripsList (fetchTrips) or
\* plan.tripIds (handleDeletePlan); i: the index of the cache-deletion loop;
\* reqs: the backend requests issued so far; err: the error of the last reply
\* (userError, tripsError, plansError, updateError, planError, deletePlanError).
NewHRun(op, arg) ==
  [op |-> op,
   pc |-> IF op \in {"fetchTrips", "fetchPlans"} THEN "getUser" ELSE "timer",
   arg |-> arg,
   list |-> <<>>,
   i |-> 0,
   reqs |-> IF op \in {"fetchTrips", "fetchPlans"} THEN <<"auth.getUser">> ELSE <<>>,
   err |-> Null]

At(h, op, pc) == h \in DOMAIN hruns /\ hruns[h].op = op /\ hruns[h].pc = pc

\* the replies of the backend: { data, error: null } or { data: null, error }
Replies == {Null, Some("error")}

\* the reply's error is not looked at
ThrowsNever(err) == FALSE

\* if (userError) throw userError, and the like for every reply
Throws(err) == err # Null

\* the invocation, holding the reply's error, awaits its next backend request
Request(h, pc, err) ==
  hruns' = [hruns EXCEPT ![h].pc = pc, ![h].reqs = Append(@, pc), ![h].err = err]

HFinish(h, out) ==
  /\ hruns' = RemoveAt(hruns, h)
  /\ last' = [op |-> hruns[h].op, out |-> out, key |-> hruns[h].arg]

\* useFocusEffect: fetchUserData(); fetchTrips(); fetchPlans()
Focus ==
  /\ mounted = "Home"
  /\ events < MaxEvents
  /\ events' = events + 1
  /\ hruns' = hruns \o <<NewHRun("fetchTrips", NoId), NewHRun("fetchPlans", NoId)>>
  /\ UNCHANGED <<mounted, infoVars, activeTab, trailCache, dbTrips, dbPlans, chatCache, plans,
                 trips, tripDates, deletingItems, dialog, alerts, last>>

\* fetchPlans: await supabase.auth.getUser()
FetchPlansGetUserDone(h) ==
  /\ At(h, "fetchPlans", "getUser")
  /\ \E err \in Replies :
       IF Throws(err) THEN HFinish(h, "threw")
       ELSE \/ Request(h, "plans.select", err) /\ UNCHANGED last
            \/ HFinish(h, "nouser")
  /\ UNCHANGED <<mounted, infoVars, activeTab, trailCache, dbTrips, dbPlans, chatCache, plans,
                 trips, tripDates, deletingItems, dialog, alerts, events>>

\* fetchPlans: await from('plans').select('*').eq('userId', user.id)
FetchPlansSelectDone(h) ==
  /\ At(h, "fetchPlans", "plans.select")
  /\ \E err \in Replies :
       IF Throws(err)
       THEN /\ HFinish(h, "threw")
            /\ UNCHANGED plans
       ELSE /\ plans' = SortByDate(PlansOf(dbPlans, UserId), PlanDates(dbPlans))
            /\ HFinish(h, "ok")
  /\ UNCHANGED <<mounted, infoVars, activeTab, trailCache, dbTrips, dbPlans, chatCache,
                 trips, tripDates, deletingItems, dialog, alerts, events>>

\* fetchTrips: await supabase.auth.getUser()
FetchTripsGetUserDone(h) ==
  /\ At(h, "fetchTrips", "getUser")
  /\ \E err \in Replies :
       IF Throws(err) THEN HFinish(h, "threw")
       ELSE \/ Request(h, "trips.select", err) /\ UNCHANGED last
            \/ HFinish(h, "nouser")
  /\ UNCHANGED <<mounted, infoVars, activeTab, trailCache, dbTrips, dbPlans, chatCache, plans,
                 trips, tripDates, deletingItems, dialog, alerts, events>>

\* fetchTrips: await from('trips').select('*').eq('userId', ..).eq('bookmarked', true)
FetchTripsSelectDone(h) ==
  /\ At(h, "fetchTrips", "trips.select")
  /\ \E err \in Replies :
       IF Throws(err) THEN HFinish(h, "threw")
       ELSE /\ hruns' = [hruns EXCEPT ![h].pc = "plans.select",
                                       ![h].reqs = Append(@, "plans.select"),
                                       ![h].err = err,
                                       ![h].list = BookmarkedOf(dbTrips, UserId)]
            /\ UNCHANGED last
  /\ UNCHANGED <<mounted, infoVars, activeTab, trailCache, dbTrips, dbPlans, chatCache, plans,
                 trips, tripDates, deletingItems, dialog, alerts, events>>

\* fetchTrips: await from('plans').select('plan_id, preferences, tripIds')
FetchTripsPlansDone(h) ==
  /\ At(h, "fetchTrips", "plans.select")
  /\ \E err \in Replies :
       IF Throws(err)
       THEN /\ HFinish(h, "threw")
            /\ UNCHANGED <<trips, tripDates>>
       ELSE /\ tripDates' = DatesOf(dbPlans, UserId)
            /\ trips' = SortByDate(hruns[h].list, DatesOf(dbPlans, UserId))
            /\ HFinish(h, "ok")
  /\ UNCHANGED <<mounted, infoVars, activeTab, trailCache, dbTrips, dbPlans, chatCache, plans,
                 deletingItems, dialog, alerts, events>>

\* handleDeleteTrip(tripId) / handleDeletePlan(planId): the confirmation Alert
PressDelete(kind, id) ==
  /\ mounted = "Home"
  /\ events < MaxEvents
  /\ dialog = Null
  /\ \/ kind = "trip" /\ id \in Range(trips)
     \/ kind = "plan" /\ id \in Range(plans)
  /\ events' = events + 1
  /\ dialog' = Some([kind |-> kind, id |-> id])
  /\ UNCHANGED <<mounted, infoVars, activeTab, trailCache, dbTrips, dbPlans, chatCache, plans,
                 trips, tripDates, deletingItems, alerts, hruns, last>>

\* the Cancel button carries the destructive onPress too
CancelProceeds ==
  /\ dialog # Null
  /\ dialog' = Null
  /\ deletingItems' = deletingItems \cup {Val(dialog).id}
  /\ hruns' = Append(hruns,
                     [op |-> IF Val(dialog).kind = "trip" THEN "handleDeleteTrip"
                             ELSE "handleDeletePlan",
                      pc |-> "timer", arg |-> Val(dialog).id, list |-> <<>>, i |-> 0,
                      reqs |-> <<>>, err |-> Null])
  /\ last' = [op |-> "Alert", out |-> "Cancel", key |-> Val(dialog).id]
  /\ UNCHANGED <<mounted, infoVars, activeTab, trailCache, dbTrips, dbPlans, chatCache, plans,
                 trips, tripDates, alerts, events>>

\* { text: "Cancel", style: "cancel" }
Cancel ==
  /\ dialog # Null
  /\ dialog' = Null
  /\ last' = [op |-> "Alert", out |-> "Cancel", key |-> Val(dialog).id]
  /\ UNCHANGED <<mounted, infoVars, activeTab, trailCache, dbTrips, dbPlans, chatCache, plans,
                 trips, tripDates, deletingItems, alerts, hruns, events>>

\* onPress of "Remove" / "Delete": the marker is set and the timer started
Confirm ==
  /\ dialog # Null
  /\ dialog' = Null
  /\ deletingItems' = deletingItems \cup {Val(dialog).id}
  /\ hruns' = Append(hruns,
                     NewHRun(IF Val(dialog).kind = "trip" THEN "handleDeleteTrip"
                             ELSE "handleDeletePlan", Val(dialog).id))
  /\ last' = [op |-> "Alert", out |-> "destructive", key |-> Val(dialog).id]
  /\ UNCHANGED <<mounted, infoVars, activeTab, trailCache, dbTrips, dbPlans, chatCache, plans,
                 trips, tripDates, alerts, events>>

\* the catch block logs and removes the marker but shows no alert
HCatchWithoutAlert(h, msg) ==
  /\ alerts' = alerts
  /\ deletingItems' = deletingItems \ {hruns[h].arg}
  /\ HFinish(h, "threw")

\* catch: Alert.alert("Error", ...); the marker is removed
HCatch(h, msg) ==
  /\ alerts' = alerts \cup {msg}
  /\ deletingItems' = deletingItems \ {hruns[h].arg}
  /\ HFinish(h, "threw")

\* handleDeleteTrip: setTimeout(..., 1000) fires; supabase.auth.getUser() is called
DeleteTripTimer(h) ==
  /\ At(h, "handleDeleteTrip", "timer")
  /\ Request(h, "auth.getUser", Null)
  /\ UNCHANGED <<mounted, infoVars, activeTab, trailCache, dbTrips, dbPlans, chatCache, plans,
                 trips, tripDates, deletingItems, dialog, alerts, events, last>>

\* handleDeleteTrip: await supabase.auth.getUser()
DeleteTripGetUserDone(h) ==
  /\ At(h, "handleDeleteTrip", "auth.getUser")
  /\ \E err \in Replies :
       IF Throws(err) THEN HCatch(h, AlertTrip)
       ELSE \/ /\ Request(h, "trips.update", err)
               /\ UNCHANGED <<deletingItems, alerts, last>>
            \/ /\ HFinish(h, "nouser")
               /\ UNCHANGED <<deletingItems, alerts>>
  /\ UNCHANGED <<mounted, infoVars, activeTab, trailCache, dbTrips, dbPlans, chatCache, plans,
                 trips, tripDates, dialog, events>>

\* the update has no filter: it applies to every row of the table
UpdatedTripsAll(h) == TripIds

\* .eq('trip_id', tripId): the rows the update applies to
UpdatedTrips(h) == {hruns[h].arg}

\* handleDeleteTrip: await from('trips').update({bookmarked: false}).eq('trip_id', tripId)
DeleteTripUpdateDone(h) ==
  /\ At(h, "handleDeleteTrip", "trips.update")
  /\ \E err \in Replies :
       IF Throws(err)
       THEN /\ HCatch(h, AlertTrip)
            /\ UNCHANGED <<dbTrips, trips>>
       ELSE /\ dbTrips' = [id \in TripIds |->
                             IF id \in UpdatedTrips(h)
                             THEN [k \in DOMAIN dbTrips[id] |->
                                     [dbTrips[id][k] EXCEPT !.bookmarked = FALSE]]
                             ELSE dbTrips[id]]
            /\ trips' = Filter(trips, {hruns[h].arg})
            /\ deletingItems' = deletingItems \ {hruns[h].arg}
            /\ HFinish(h, "ok")
            /\ UNCHANGED alerts
  /\ UNCHANGED <<mounted, infoVars, activeTab, trailCache, dbPlans, chatCache, plans,
                 tripDates, dialog, events>>

\* handleDeletePlan: the timer fires; the plan's tripIds are requested
DeletePlanTimer(h) ==
  /\ At(h, "handleDeletePlan", "timer")
  /\ Request(h, "plans.select", Null)
  /\ UNCHANGED <<mounted, infoVars, activeTab, trailCache, dbTrips, dbPlans, chatCache, plans,
                 trips, tripDates, deletingItems, dialog, alerts, events, last>>

\* handleDeletePlan: await from('plans').select('tripIds').eq('plan_id', planId).single()
DeletePlanSelectDone(h) ==
  /\ At(h, "handleDeletePlan", "plans.select")
  /\ \E err \in IF dbPlans[hruns[h].arg] = <<>> THEN {Some("error")} ELSE Replies :
       IF Throws(err) THEN HCatch(h, AlertPlan)
       ELSE /\ LET plan == dbPlans[hruns[h].arg][1] IN
               IF plan.tripIds # Null
               THEN hruns' = [hruns EXCEPT ![h].pc = "trips.delete",
                                           ![h].reqs = Append(@, "trips.delete"),
                                           ![h].err = err,
                                           ![h].list = Val(plan.tripIds)]
               ELSE Request(h, "plans.delete", err)
            /\ UNCHANGED <<deletingItems, alerts, last>>
  /\ UNCHANGED <<mounted, infoVars, activeTab, trailCache, dbTrips, dbPlans, chatCache, plans,
                 trips, tripDates, dialog, events>>

\* handleDeletePlan: await from('trips').delete().in('trip_id', plan.tripIds)
DeletePlanTripsDeleteDone(h) ==
  /\ At(h, "handleDeletePlan", "trips.delete")
  /\ \E err \in Replies :
       IF Throws(err)
       THEN /\ HCatch(h, AlertPlan)
            /\ UNCHANGED <<dbTrips, trips>>
       ELSE /\ dbTrips' = [id \in TripIds |->
                             IF id \in Range(hruns[h].list) THEN <<>> ELSE dbTrips[id]]
            /\ IF hruns[h].list = <<>>
               THEN /\ Request(h, "plans.delete", err)
                    /\ trips' = Filter(trips, Range(hruns[h].list))
               ELSE /\ hruns' = [hruns EXCEPT ![h].pc = "deleteCachedTrailData",
                                              ![h].i = 1, ![h].err = err]
                    /\ UNCHANGED trips
            /\ UNCHANGED <<deletingItems, alerts, last>>
  /\ UNCHANGED <<mounted, infoVars, activeTab, trailCache, dbPlans, chatCache, plans,
                 tripDates, dialog, events>>

\* the loop takes a trip that is not one of the plan's
LoopTripIdOutsidePlan(h) == CHOOSE id \in TripIds : id \notin Range(hruns[h].list)

\* for (const tripId of plan.tripIds)
LoopTripId(h) == hruns[h].list[hruns[h].i]

\* handleDeletePlan: await deleteCachedTrailData(tripId)
DeleteCachedTrailDataDone(h) ==
  /\ At(h, "handleDeletePlan", "deleteCachedTrailData")
  /\ \/ /\ trailCache' = [trailCache EXCEPT ![LoopTripId(h)] = Null]
        /\ hruns' = [hruns EXCEPT ![h].pc = "deleteCachedChatMessages"]
        /\ UNCHANGED <<deletingItems, alerts, last>>
     \/ /\ HCatch(h, AlertPlan)
        /\ UNCHANGED trailCache
  /\ UNCHANGED <<mounted, infoVars, activeTab, dbTrips, dbPlans, chatCache, plans, trips,
                 tripDates, dialog, events>>

\* handleDeletePlan: await deleteCachedChatMessages(tripId); after the last
\* trip, setTrips and the request that deletes the plan
DeleteCachedChatMessagesDone(h) ==
  /\ At(h, "handleDeletePlan", "deleteCachedChatMessages")
  /\ \/ /\ chatCache' = [chatCache EXCEPT ![LoopTripId(h)] = Null]
        /\ IF hruns[h].i < Len(hruns[h].list)
           THEN /\ hruns' = [hruns EXCEPT ![h].pc = "deleteCachedTrailData",
                                          ![h].i = @ + 1]
                /\ UNCHANGED trips
           ELSE /\ Request(h, "plans.delete", Null)
                /\ trips' = Filter(trips, Range(hruns[h].list))
        /\ UNCHANGED <<deletingItems, alerts, last>>
     \/ /\ HCatch(h, AlertPlan)
        /\ UNCHANGED <<chatCache, trips>>
  /\ UNCHANGED <<mounted, infoVars, activeTab, trailCache, dbTrips, dbPlans, plans,
                 tripDates, dialog, events>>

\* handleDeletePlan: await from('plans').delete().eq('plan_id', planId)
DeletePlanDeleteDone(h) ==
  /\ At(h, "handleDeletePlan", "plans.delete")
  /\ \E err \in Replies :
       IF Throws(err)
       THEN /\ HCatch(h, AlertPlan)
            /\ UNCHANGED <<dbPlans, plans>>
       ELSE /\ dbPlans' = [dbPlans EXCEPT ![hruns[h].arg] = <<>>]
            /\ plans' = Filter(plans, {hruns[h].arg})
            /\ deletingItems' = deletingItems \ {hruns[h].arg}
            /\ HFinish(h, "ok")
            /\ UNCHANGED alerts
  /\ UNCHANGED <<mounted, infoVars, activeTab, trailCache, dbTrips, chatCache, trips,
                 tripDates, dialog, events>>

\* ------------------------------------------------------- Home: active tab
\* An invocation of loadSavedTab, handleTabChange or saveTabPreference
TabRun(op, pc, arg) ==
  [op |-> op, pc |-> pc, arg |-> arg, list |-> <<>>, i |-> 0, reqs |-> <<>>, err |-> Null]

\* the preference is never saved
ShouldSaveNever(tab) == FALSE

\* saveTabPreference: if (activeTab)
ShouldSave(tab) == tab # NoTab

\* setActiveTab(tab) by invocation h, which returns; when the state changes the
\* effect on [activeTab] calls saveTabPreference, which runs to its await
SetActiveTab(h, tab) ==
  /\ activeTab' = tab
  /\ hruns' = IF tab # activeTab /\ ShouldSave(tab)
              THEN Append(RemoveAt(hruns, h), TabRun("saveTabPreference", "setItem", tab))
              ELSE RemoveAt(hruns, h)
  /\ last' = [op |-> hruns[h].op, out |-> "ok", key |-> tab]

\* handleTabChange: if (newTab === activeTab) return
SameTab(newTab) == newTab = activeTab

\* handleTabChange(newTab): returns, or starts the fade-out animation
TabPress(newTab) ==
  /\ mounted = "HomeTabs"
  /\ events < MaxEvents
  /\ events' = events + 1
  /\ hruns' = IF SameTab(newTab) THEN hruns
              ELSE Append(hruns, TabRun("handleTabChange", "animation", newTab))
  /\ UNCHANGED <<mounted, infoVars, activeTab, trailCache, dbTrips, dbPlans, chatCache,
                 plans, trips, tripDates, deletingItems, dialog, alerts, last>>

\* handleTabChange: the callback of the fade-out animation
AnimationDone(h) ==
  /\ At(h, "handleTabChange", "animation")
  /\ SetActiveTab(h, hruns[h].arg)
  /\ UNCHANGED <<mounted, infoVars, trailCache, dbTrips, dbPlans, chatCache,
                 plans, trips, tripDates, deletingItems, dialog, alerts, events>>

\* loadSavedTab: await AsyncStorage.getItem('activeTab'); if (savedTab) setActiveTab(savedTab)
LoadSavedTabDone(h) ==
  /\ At(h, "loadSavedTab", "getItem")
  /\ \/ IF storage.activeTab # NoTab
        THEN SetActiveTab(h, storage.activeTab)
        ELSE HFinish(h, "none") /\ UNCHANGED activeTab
     \/ HFinish(h, "threw") /\ UNCHANGED activeTab
  /\ UNCHANGED <<mounted, infoVars, trailCache, dbTrips, dbPlans, chatCache,
                 plans, trips, tripDates, deletingItems, dialog, alerts, events>>

\* saveTabPreference: await AsyncStorage.setItem('activeTab', activeTab)
SaveTabPreferenceDone(h) ==
  /\ At(h, "saveTabPreference", "setItem")
  /\ \/ /\ storage' = [storage EXCEPT !.activeTab = hruns[h].arg]
        /\ HFinish(h, "ok")
     \/ /\ HFinish(h, "threw")
        /\ UNCHANGED storage
  /\ UNCHANGED <<mounted, tripId, tripData, tripInfo, loading, error, weather,
                 temperatureUnit, runs, wruns, unhandled, weatherCache, gets,
                 activeTab, trailCache, dbTrips, dbPlans, chatCache,
                 plans, trips, tripDates, deletingItems, dialog, alerts, events>>

\* ------------------------------------------------------------------ Init
\* InfoTab after its first render: the effects have run, fetchTripInfo is at
\* its first await, fetchWeather has returned (tripInfo is null).
InitInfoTab ==
  /\ mounted = "InfoTab"
  /\ \E p \in PropChoices :
       /\ tripId = p.tripId /\ tripData = p.tripData
       /\ runs = <<NewRun(p)>>
  /\ tripInfo = Null /\ loading = TRUE /\ error = NoError /\ weather = Null
  /\ temperatureUnit = "F"
  /\ wruns = <<>> /\ unhandled = {}
  /\ storage = [selectedTripId |-> NoId, activeTab |-> NoTab]
  /\ \E row \in RowChoices :
       dbTrips = [id \in TripIds |-> IF id = "t1" THEN <<row>> ELSE <<>>]
  /\ trailCache = [id \in TripIds |-> Null]
  /\ weatherCache = [k \in WeatherKeys |-> Null]
  /\ gets = {}
  /\ dbPlans = [id \in PlanIds |-> <<PlanRow(id)>>]
  /\ chatCache = [id \in TripIds |-> Null]
  /\ plans = <<>> /\ trips = <<>> /\ tripDates = [id \in TripIds |-> 0]
  /\ deletingItems = {} /\ activeTab = NoTab
  /\ dialog = Null /\ alerts = {} /\ hruns = <<>>
  /\ events = 0
  /\ last = [op |-> "none", out |-> "none", key |-> NoId]

\* Home focused: useFocusEffect has called fetchTrips and fetchPlans, both at
\* their first await. The lists are empty (first mount) or hold what the
\* fetches of an earlier focus loaded.
InitHome ==
  /\ mounted = "Home"
  /\ tripId = NoId /\ tripData = Null
  /\ tripInfo = Null /\ loading = TRUE /\ error = NoError /\ weather = Null
  /\ temperatureUnit = "F"
  /\ runs = <<>> /\ wruns = <<>> /\ unhandled = {}
  /\ storage = [selectedTripId |-> "t1", activeTab |-> NoTab]
  /\ dbTrips = [id \in TripIds |-> <<FullTrip(id)>>]
  /\ trailCache = [id \in TripIds |-> Some(FullTrip(id))]
  /\ weatherCache = [k \in WeatherKeys |-> Null]
  /\ gets = {}
  /\ dbPlans = [id \in PlanIds |-> <<PlanRow(id)>>]
  /\ chatCache = [id \in TripIds |-> Some("messages")]
  /\ \/ plans = <<>> /\ trips = <<>> /\ tripDates = [id \in TripIds |-> 0]
     \/ /\ plans = SortByDate(PlansOf(dbPlans, UserId), PlanDates(dbPlans))
        /\ tripDates = DatesOf(dbPlans, UserId)
        /\ trips = SortByDate(BookmarkedOf(dbTrips, UserId), DatesOf(dbPlans, UserId))
  /\ deletingItems = {} /\ activeTab = NoTab
  /\ dialog = Null /\ alerts = {}
  /\ hruns = <<NewHRun("fetchTrips", NoId), NewHRun("fetchPlans", NoId)>>
  /\ events = 0
  /\ last = [op |-> "none", out |-> "none", key |-> NoId]

\* Home mounted, seen for its tab preference: loadSavedTab is at its await;
\* storage holds what an earlier mount saved, if anything.
InitHomeTabs ==
  /\ mounted = "HomeTabs"
  /\ tripId = NoId /\ tripData = Null
  /\ tripInfo = Null /\ loading = TRUE /\ error = NoError /\ weather = Null
  /\ temperatureUnit = "F"
  /\ runs = <<>> /\ wruns = <<>> /\ unhandled = {}
  /\ \E saved \in Tabs \cup {NoTab} :
       storage = [selectedTripId |-> NoId, activeTab |-> saved]
  /\ dbTrips = [id \in TripIds |-> <<FullTrip(id)>>]
  /\ trailCache = [id \in TripIds |-> Null]
  /\ weatherCache = [k \in WeatherKeys |-> Null]
  /\ gets = {}
  /\ dbPlans = [id \in PlanIds |-> <<PlanRow(id)>>]
  /\ chatCache = [id \in TripIds |-> Null]
  /\ plans = <<>> /\ trips = <<>> /\ tripDates = [id \in TripIds |-> 0]
  /\ deletingItems = {} /\ activeTab = NoTab
  /\ dialog = Null /\ alerts = {}
  /\ hruns = <<TabRun("loadSavedTab", "getItem", NoTab)>>
  /\ events = 0
  /\ last = [op |-> "none", out |-> "none", key |-> NoId]

Init == InitInfoTab \/ InitHome \/ InitHomeTabs

\* The invocations that can be in flight at once: two per focus, one per
\* other event
Slots == 1..(2 * (MaxEvents + 1))

Next ==
  \/ \E p \in PropChoices : Render(p)
  \/ \E r \in Slots :
       \/ SetItemDone(r)
       \/ GetItemDone(r)
       \/ GetCachedTrailDataDone(r)
       \/ QueryDone(r)
       \/ CacheTrailDataDone(r)
  \/ ChangeUnit
  \/ \E w \in Slots :
       \/ GetCachedWeatherDataDone(w)
       \/ FetchDone(w)
       \/ JsonDone(w)
       \/ CacheWeatherDataDone(w)
  \/ Focus
  \/ \E kind \in {"trip", "plan"}, id \in TripIds \cup PlanIds : PressDelete(kind, id)
  \/ Cancel
  \/ Confirm
  \/ \E newTab \in Tabs : TabPress(newTab)
  \/ \E h \in Slots :
       \/ AnimationDone(h)
       \/ LoadSavedTabDone(h)
       \/ SaveTabPreferenceDone(h)
       \/ FetchPlansGetUserDone(h)
       \/ FetchPlansSelectDone(h)
       \/ FetchTripsGetUserDone(h)
       \/ FetchTripsSelectDone(h)
       \/ FetchTripsPlansDone(h)
       \/ DeleteTripTimer(h)
       \/ DeleteTripGetUserDone(h)
       \/ DeleteTripUpdateDone(h)
       \/ DeletePlanTimer(h)
       \/ DeletePlanSelectDone(h)
       \/ DeletePlanTripsDeleteDone(h)
       \/ DeleteCachedTrailDataDone(h)
       \/ DeleteCachedChatMessagesDone(h)
       \/ DeletePlanDeleteDone(h)

Spec == Init /\ [][Next]_vars

\* ---------------------------------------------------------------- claims
\* the step of this transition is taken by fetchTripInfo run r
StepOfRun(r) ==
  \/ runs' = RemoveAt(runs, r)
  \/ Len(runs') = Len(runs) /\ runs'[r] # runs[r]

\* the step of this transition is taken by fetchWeather run w
StepOfWRun(w) ==
  \/ wruns' = RemoveAt(wruns, w)
  \/ Len(wruns') = Len(wruns) /\ wruns'[w] # wruns[w]

\* C1: when getCachedTrailData returns an entry for the resolved trip id,
\* fetchTripInfo sets tripInfo to that entry and returns without having
\* issued a query against the backend table trips.
C1_CacheHitNoQuery ==
  [][\A r \in DOMAIN runs :
       ( /\ runs[r].pc = "getCachedTrailData"
         /\ getCachedTrailData(runs[r].currentTripId) # Null
         /\ StepOfRun(r)
         /\ ~(Len(runs') < Len(runs) /\ last'.out = "threw") )
       => /\ tripInfo' = getCachedTrailData(runs[r].currentTripId)
          /\ runs' = RemoveAt(runs, r)
          /\ runs[r].queries = 0
          /\ last' = [op |-> "fetchTripInfo", out |-> "cache",
                      key |-> runs[r].currentTripId]]_vars

C1_Witness ==
  /\ last.op = "fetchTripInfo" /\ last.out = "cache"
  /\ tripInfo # Null
  /\ tripInfo = trailCache[last.key]

\* C2: on a trail-cache miss fetchTripInfo queries the backend; when rows come
\* back it sets tripInfo to the first row and then writes that same row to the
\* trail cache under the trip id; a later load of an id that is in the cache
\* issues no backend query.
C2_ReadThrough ==
  [][\A r \in DOMAIN runs :
       /\ ( /\ runs[r].pc = "query" /\ Len(runs') = Len(runs)
            /\ runs'[r].pc = "cacheTrailData" )
          => /\ dbTrips[runs[r].currentTripId] # <<>>
             /\ tripInfo' = Some(dbTrips[runs[r].currentTripId][1])
             /\ runs'[r].data = Some(dbTrips[runs[r].currentTripId])
       /\ ( /\ runs[r].pc = "cacheTrailData" /\ runs' = RemoveAt(runs, r)
            /\ last'.out = "backend" )
          => trailCache'[runs[r].currentTripId] = Some(Val(runs[r].data)[1])
       /\ ( /\ runs[r].pc = "getCachedTrailData" /\ Len(runs') = Len(runs)
            /\ runs'[r].pc = "query" )
          => trailCache[runs[r].currentTripId] = Null]_vars

C2_Witness ==
  /\ mounted = "InfoTab" /\ runs = <<>>
  /\ last = [op |-> "fetchTripInfo", out |-> "cache", key |-> "t1"]
  /\ trailCache["t1"] = Some(dbTrips["t1"][1])
  /\ tripInfo = Some(dbTrips["t1"][1])

\* C3: when getCachedWeatherData returns an entry for the cache key, fetchWeather
\* builds the weather view model from that entry (in the unit of the run) and
\* returns without sending a GET to the weather provider; this also holds for
\* a run started by a temperature unit change.
C3_WeatherCacheFirst ==
  [][\A w \in DOMAIN wruns :
       ( /\ wruns[w].pc = "getCachedWeatherData"
         /\ getCachedWeatherData(wruns[w].cacheKey) # Null
         /\ StepOfWRun(w)
         /\ ~(Len(wruns') < Len(wruns) /\ last'.out = "rejected") )
       => /\ wruns' = RemoveAt(wruns, w)
          /\ wruns[w].gets = 0
          /\ gets' = gets
          /\ LET cached == Val(getCachedWeatherData(wruns[w].cacheKey)) IN
             IF cached.main # Null
             THEN /\ weather' = Some(WeatherView(cached, wruns[w].unit))
                  /\ last'.out = "cache"
             ELSE /\ weather' = weather
                  /\ last'.out = "processFailed"]_vars

C3_Witness ==
  /\ last.op = "fetchWeather" /\ last.out = "cache"
  /\ temperatureUnit = "C"
  /\ weatherCache[last.key] # Null
  /\ weather = Some(WeatherView(Val(weatherCache[last.key]), "C"))

\* fetchWeather run w sends its GET in this step
SendsGet(w) ==
  /\ wruns[w].pc = "getCachedWeatherData"
  /\ Len(wruns') = Len(wruns)
  /\ wruns'[w].pc = "fetch"

\* C4 as stated: a GET is never sent for a key whose earlier GET got a
\* response or is still in flight.
C4_SingleGetPerKey ==
  [][\A w \in DOMAIN wruns :
       SendsGet(w) =>
         /\ wruns[w].cacheKey \notin gets
         /\ \A q \in DOMAIN wruns :
              ~(wruns[q].pc = "fetch" /\ wruns[q].cacheKey = wruns[w].cacheKey)]_vars

\* C4 amended: a fetchWeather run sends at most one GET, and sends it only when
\* its own cache lookup found no entry for the key; so no GET is sent for a key
\* once a response for it is in the weather cache.
C4_GetOnlyOnMiss ==
  [][\A w \in DOMAIN wruns :
       SendsGet(w) =>
         /\ getCachedWeatherData(wruns[w].cacheKey) = Null
         /\ wruns[w].gets = 0
         /\ wruns'[w].gets = 1]_vars

\* two runs have each sent a GET for the same key
C4_Witness ==
  \E w, q \in DOMAIN wruns :
    /\ w # q
    /\ wruns[w].cacheKey = wruns[q].cacheKey
    /\ wruns[w].gets = 1 /\ wruns[q].gets = 1
    /\ weatherCache[wruns[w].cacheKey] = Null

\* the cache key fetchWeather computes for the trip on display
KeyOf(info) == NewWRun(info, temperatureUnit).cacheKey

\* C5: after the HTTP fetch of fetchWeather has failed for the trip on display,
\* the weather fields show the blank placeholder.
C5_BlankAfterFetchFailure ==
  ( /\ last.op = "fetchWeather" /\ last.out = "fetchFailed"
    /\ runs = <<>> /\ wruns = <<>>
    /\ WeatherEntry(tripInfo) = "await"
    /\ KeyOf(tripInfo) = last.key )
  => WeatherField = "--"

\* C6: no exception or promise rejection escapes an operation.
C6_NothingEscapes == unhandled = {}

\* the message setError is called with, by the way the run ended
MessageOf(out) ==
  IF out = "noid" THEN ErrNoId
  ELSE IF out = "notfound" THEN ErrNotFound
  ELSE ErrFailed

\* C7: a fetchTripInfo run that ends without trip data (no id, no rows, a call
\* threw) leaves error set to the message of its case, leaves tripInfo
\* unchanged, and the error view is rendered.
C7_FailureMessage ==
  [][( /\ Len(runs') < Len(runs)
       /\ last'.out \in {"noid", "notfound", "threw"} )
     => /\ error' = MessageOf(last'.out)
        /\ tripInfo' = tripInfo
        /\ View' = "error"]_vars

C7_Witness ==
  /\ last.op = "fetchTripInfo" /\ last.out = "notfound"
  /\ error = ErrNotFound
  /\ View = "error"

NoDuplicates(s) == Cardinality(Range(s)) = Len(s)

\* C8: an invocation issues each backend or HTTP request at most once, and an
\* invocation holding the error of a failed request is never awaiting
\* anything: it has returned.
C8_NoRetry ==
  /\ \A r \in DOMAIN runs : runs[r].queries <= 1
  /\ \A w \in DOMAIN wruns : wruns[w].gets <= 1
  /\ \A h \in DOMAIN hruns : NoDuplicates(hruns[h].reqs) /\ hruns[h].err = Null

\* handleDeletePlan has returned: its request to delete the trips went
\* through, a later call failed, and the plan is still there
C8_Witness ==
  /\ last = [op |-> "handleDeletePlan", out |-> "threw", key |-> "p1"]
  /\ dbPlans["p1"] # <<>>
  /\ dbTrips["t1"] = <<>>
  /\ hruns = <<>>
  /\ AlertPlan \in alerts

\* C9: once every fetchTripInfo run has returned and none failed, tripInfo
\* holds the record of the trip the current props ask for.
C9_LatestRequestWins ==
  ( /\ mounted = "InfoTab" /\ runs = <<>> /\ error = NoError
    /\ ResolveTripId(tripId, tripData) # NoId )
  => /\ tripInfo # Null
     /\ Val(tripInfo).id = ResolveTripId(tripId, tripData)

\* C10: with any optional field of the loaded record absent, rendering the
\* content view and running fetchWeather raise no error.
C10_OptionalFieldsChecked ==
  /\ View # "TypeError"
  /\ RejectedField \notin unhandled

\* the run fetchTripInfo starts in this step, if one starts
Started == IF Len(runs') > Len(runs) THEN {runs'[Len(runs')]} ELSE {}

\* the step makes run r return through the catch block
Threw(r) == runs' = RemoveAt(runs, r) /\ last'.op = "fetchTripInfo" /\ last'.out = "threw"

C12_NoInvalidation ==
  [][\A id \in TripIds : trailCache[id] # Null => trailCache'[id] = trailCache[id]]_vars

\* the trip ids of the plan handleDeletePlan run h is deleting
TripIdsOfPlan(h) ==
  IF dbPlans[hruns[h].arg] = <<>> \/ dbPlans[hruns[h].arg][1].tripIds = Null THEN {}
  ELSE Range(Val(dbPlans[hruns[h].arg][1].tripIds))

\* C12 amended: a trail-cache entry is removed by one operation only, the
\* cache-deletion loop of handleDeletePlan, and only for a trip id of the plan
\* being deleted, after the plan's trips were deleted from the backend; no
\* other operation removes or changes an entry.
C12_InvalidatedOnlyByDeletePlan ==
  [][\A id \in TripIds :
       (trailCache[id] # Null /\ trailCache'[id] # trailCache[id])
       => /\ trailCache'[id] = Null
          /\ \E h \in DOMAIN hruns :
               /\ At(h, "handleDeletePlan", "deleteCachedTrailData")
               /\ hruns' # hruns
               /\ id \in TripIdsOfPlan(h)
               /\ dbTrips[id] = <<>>]_vars

\* handleDeletePlan has removed the entry of the plan's trip and kept the other
C12_Witness ==
  /\ mounted = "Home"
  /\ trailCache["t1"] = Null /\ dbTrips["t1"] = <<>>
  /\ trailCache["t2"] = Some(FullTrip("t2"))

\* the rows of a trip after update({ bookmarked: false })
Unbookmarked(rows) == [k \in DOMAIN rows |-> [rows[k] EXCEPT !.bookmarked = FALSE]]

\* C13: a backend row of trips changes only by handleDeleteTrip(tripId), for
\* the trip tripId and to bookmarked = false, or by handleDeletePlan(planId),
\* which deletes trips of that plan's tripIds only; a row of plans changes only
\* by handleDeletePlan(planId) deleting the plan planId.
C13_WritesKeyedById ==
  [][/\ \A id \in TripIds :
          dbTrips'[id] # dbTrips[id]
          => \E h \in DOMAIN hruns :
               \/ /\ At(h, "handleDeleteTrip", "trips.update")
                  /\ hruns[h].arg = id
                  /\ dbTrips'[id] = Unbookmarked(dbTrips[id])
               \/ /\ At(h, "handleDeletePlan", "trips.delete")
                  /\ id \in Range(hruns[h].list)
                  /\ dbTrips'[id] = <<>>
     /\ \A id \in PlanIds :
          dbPlans'[id] # dbPlans[id]
          => /\ dbPlans'[id] = <<>>
             /\ \E h \in DOMAIN hruns :
                  At(h, "handleDeletePlan", "plans.delete") /\ hruns[h].arg = id
     /\ \A h \in DOMAIN hruns :
          ( /\ At(h, "handleDeletePlan", "plans.select")
            /\ Len(hruns') = Len(hruns)
            /\ hruns'[h].pc = "trips.delete" )
          => hruns'[h].list = Val(dbPlans[hruns[h].arg][1].tripIds)]_vars

\* handleDeleteTrip("t1") has returned: t1 is no longer bookmarked, t2 is as it was
C13_Witness ==
  /\ last = [op |-> "handleDeleteTrip", out |-> "ok", key |-> "t1"]
  /\ dbTrips["t1"] = Unbookmarked(<<FullTrip("t1")>>)
  /\ dbTrips["t1"] # <<FullTrip("t1")>>
  /\ dbTrips["t2"] = <<FullTrip("t2")>>
  /\ dbPlans = [id \in PlanIds |-> <<PlanRow(id)>>]

\* handleDeleteTrip has taken the trip out of the favorites in the backend
RemovedFromFavorites(id) == dbTrips[id] # <<>> /\ ~dbTrips[id][1].bookmarked

\* C14: once every Home invocation has returned, a trip that handleDeleteTrip
\* removed from the favorites is not in the local trips list, and a plan that
\* handleDeletePlan deleted is not in the local plans list.
C14_DeletedItemStaysRemoved ==
  (mounted = "Home" /\ hruns = <<>>)
  => /\ \A id \in TripIds : RemovedFromFavorites(id) => id \notin Range(trips)
     /\ \A id \in PlanIds : dbPlans[id] = <<>> => id \notin Range(plans)

\* no delayed body of handleDeletePlan(id) is running
DeletePlanFinished(id) ==
  \A h \in DOMAIN hruns : ~(hruns[h].op = "handleDeletePlan" /\ hruns[h].arg = id)

\* the trips a plan was created with
AssociatedTrips(id) ==
  IF PlanRow(id).tripIds = Null THEN {} ELSE Range(Val(PlanRow(id).tripIds))

\* C15: when no delayed body of handleDeletePlan is running for a plan, the
\* backend holds the plan and every trip of its tripIds, or none of them.
C15_PlanAndTripsTogether ==
  \A id \in PlanIds :
    (mounted = "Home" /\ DeletePlanFinished(id))
    => \/ dbPlans[id] # <<>> /\ \A t \in AssociatedTrips(id) : dbTrips[t] # <<>>
       \/ dbPlans[id] = <<>> /\ \A t \in AssociatedTrips(id) : dbTrips[t] = <<>>

\* the step makes Home invocation h of operation op return with outcome out
Returns(h, op, out) ==
  /\ hruns[h].op = op
  /\ hruns' = RemoveAt(hruns, h)
  /\ last' = [op |-> op, out |-> out, key |-> hruns[h].arg]

\* C16: when the delayed body of handleDeleteTrip fails (the auth reply or
\* the update reply carries an error, or the call rejects), the alert "Could
\* not remove trip from favorites." is shown and no other, the local trips
\* list is unchanged and so is the backend: the trip is still bookmarked.
C16_DeleteTripFailureAlert ==
  [][\A h \in DOMAIN hruns :
       Returns(h, "handleDeleteTrip", "threw")
       => /\ hruns[h].pc \in {"auth.getUser", "trips.update"}
          /\ alerts' = alerts \cup {AlertTrip}
          /\ trips' = trips
          /\ dbTrips' = dbTrips]_vars

C16_Witness ==
  /\ last = [op |-> "handleDeleteTrip", out |-> "threw", key |-> "t1"]
  /\ alerts = {AlertTrip}
  /\ "t1" \in Range(trips)
  /\ dbTrips["t1"] = <<FullTrip("t1")>> /\ FullTrip("t1").bookmarked

\* C17: an id is in deletingItems only while the delayed body of its
\* handleDeleteTrip or handleDeletePlan has not finished.
C17_MarkerCleared ==
  \A id \in deletingItems :
    \E h \in DOMAIN hruns :
      hruns[h].op \in {"handleDeleteTrip", "handleDeletePlan"} /\ hruns[h].arg = id

\* C18: once handleDeletePlan has deleted a plan's trips from the backend and
\* its delayed body has finished, no trip of the plan has cached trail data or
\* cached chat messages: a lookup by fetchTripInfo is a miss.
C18_PlanDeleteClearsCaches ==
  \A id \in PlanIds : \A t \in AssociatedTrips(id) :
    (mounted = "Home" /\ DeletePlanFinished(id) /\ dbTrips[t] = <<>>)
    => /\ ~TrailCacheHit(getCachedTrailData(t))
       /\ chatCache[t] = Null

\* C19: an entry is written to the trail cache only by a fetchTripInfo run
\* whose backend query returned rows, under the id it queried and with the
\* first row returned; a run that ends with "Trip not found." (no rows, or an
\* error result) writes nothing, so every entry is the row of its own id.
C19_CacheOnlyReturnedRow ==
  [][/\ \A id \in TripIds :
          (trailCache'[id] # trailCache[id] /\ trailCache'[id] # Null)
          => \E r \in DOMAIN runs :
               /\ runs[r].pc = "cacheTrailData"
               /\ runs[r].currentTripId = id
               /\ runs[r].data # Null /\ Len(Val(runs[r].data)) > 0
               /\ trailCache'[id] = Some(Val(runs[r].data)[1])
               /\ Val(runs[r].data)[1].id = id
     /\ (Len(runs') < Len(runs) /\ last'.out = "notfound") => trailCache' = trailCache
     /\ \A r \in DOMAIN runs :
          (runs[r].pc = "query" /\ StepOfRun(r) /\ Len(runs') = Len(runs))
          => /\ runs'[r].pc = "cacheTrailData"
             /\ runs'[r].data = Some(dbTrips[runs[r].currentTripId])
             /\ dbTrips[runs[r].currentTripId] # <<>>]_vars

\* a load of a trip the backend has no row for has ended with "Trip not
\* found." and the cache has no entry for it
C19_Witness ==
  /\ last = [op |-> "fetchTripInfo", out |-> "notfound", key |-> "t2"]
  /\ error = ErrNotFound
  /\ dbTrips["t2"] = <<>>
  /\ trailCache["t2"] = Null

\* the trip id the props give: tripId, else tripData.id, else none
IdFromProps(id, td) ==
  IF id # NoId THEN id
  ELSE IF td # Null /\ Val(td).id # NoId THEN Val(td).id
  ELSE NoId

\* C20: fetchTripInfo uses the tripId prop when given, otherwise tripData.id;
\* it reads the stored selectedTripId only when the props give no id, and uses
\* the stored value then; when the stored value is missing too it returns
\* with "No trip ID available." without any cache or backend read.
C20_StoredIdIsFallback ==
  [][/\ \A n \in Started :
          /\ n.currentTripId = IdFromProps(tripId', tripData')
          /\ n.pc = IF IdFromProps(tripId', tripData') = NoId THEN "getItem" ELSE "setItem"
     /\ \A r \in DOMAIN runs :
          (StepOfRun(r) /\ ~Threw(r))
          => /\ ( runs[r].pc = "setItem" /\ Len(runs') = Len(runs) )
                => /\ runs'[r].pc = "getCachedTrailData"
                   /\ runs'[r].currentTripId = runs[r].currentTripId
             /\ ( runs[r].pc = "getItem" /\ Len(runs') = Len(runs) )
                => /\ storage.selectedTripId # NoId
                   /\ runs'[r].pc = "getCachedTrailData"
                   /\ runs'[r].currentTripId = storage.selectedTripId
             /\ ( /\ runs[r].pc = "getItem" /\ storage.selectedTripId = NoId
                  /\ (runs[r].tripData = Null \/ Val(runs[r].tripData).schedule = Null) )
                => /\ runs' = RemoveAt(runs, r)
                   /\ last'.out = "noid" /\ error' = ErrNoId
                   /\ runs[r].queries = 0
                   /\ tripInfo' = tripInfo /\ trailCache' = trailCache
     /\ \A r \in DOMAIN runs' :
          runs'[r].pc \in {"getCachedTrailData", "query", "cacheTrailData"}
          => runs'[r].currentTripId # NoId]_vars

\* with no id in the props the stored id of an earlier load was used
C20_Witness ==
  /\ tripId = NoId /\ tripData = Null
  /\ runs = <<>>
  /\ last.op = "fetchTripInfo" /\ last.out = "cache" /\ last.key = "t1"
  /\ storage.selectedTripId = "t1"
  /\ tripInfo # Null /\ Val(tripInfo).id = "t1"

\* C22: when every fetchTripInfo run has returned and the last one set
\* tripInfo (from the props, the cache or the backend), the trip content is
\* rendered, not the error view, whatever an earlier run had set.
C22_RecoveredLoadShowsTrip ==
  ( /\ mounted = "InfoTab" /\ runs = <<>>
    /\ last.op = "fetchTripInfo" /\ last.out \in {"props", "cache", "backend"}
    /\ tripInfo # Null /\ Val(tripInfo).cellService # Null )
  => View = "content"

\* C23: every payload in the weather cache is one the weather view model can
\* be built from (it has the current conditions).
C23_OnlyUsableWeatherCached ==
  \A k \in WeatherKeys : weatherCache[k] # Null => Val(weatherCache[k]).main # Null

\* everything a deletion touches: backend rows, cache entries, the marker,
\* the local lists, the delayed bodies
Destructible == <<dbTrips, dbPlans, trailCache, chatCache, deletingItems, trips, plans, hruns>>

DeleteOps == {"handleDeleteTrip", "handleDeletePlan"}

\* C24: calling handleDeleteTrip or handleDeletePlan only opens the
\* confirmation dialog; closing the dialog with Cancel changes nothing else;
\* a delayed body starts, and the marker is set, only in the step in which the
\* destructive option of the dialog is chosen, for the item of the dialog; and
\* backend rows, cache entries and the marker change in no step but that one
\* and the steps of a delayed body so started.
C24_NothingWithoutConfirmation ==
  [][/\ (dialog = Null /\ dialog' # Null) => Destructible' = Destructible
     /\ (dialog # Null /\ dialog' = Null)
        => /\ last'.op = "Alert" /\ last'.out \in {"Cancel", "destructive"}
           /\ last'.key = Val(dialog).id
     /\ (dialog # Null /\ dialog' = Null /\ last'.out = "Cancel")
        => /\ Destructible' = Destructible
           /\ alerts' = alerts /\ tripDates' = tripDates
     /\ Len(hruns') > Len(hruns) /\ hruns'[Len(hruns')].op \in DeleteOps
        => /\ dialog # Null /\ dialog' = Null /\ last'.out = "destructive"
           /\ hruns' = Append(hruns, hruns'[Len(hruns')])
           /\ hruns'[Len(hruns')].arg = Val(dialog).id
           /\ hruns'[Len(hruns')].op = IF Val(dialog).kind = "trip"
                                       THEN "handleDeleteTrip" ELSE "handleDeletePlan"
           /\ hruns'[Len(hruns')].pc = "timer"
           /\ deletingItems' = deletingItems \cup {Val(dialog).id}
     /\ <<dbTrips, dbPlans, chatCache, deletingItems>>' # <<dbTrips, dbPlans, chatCache, deletingItems>>
        => \/ dialog # Null /\ dialog' = Null /\ Len(hruns') > Len(hruns)
           \/ \E h \in DOMAIN hruns :
                hruns[h].op \in DeleteOps /\ hruns[h].pc # "timer" /\ hruns' # hruns]_vars

\* the confirmation dialog of handleDeletePlan("p1") was closed with Cancel and
\* nothing has been deleted, marked or started
C24_Witness ==
  /\ dialog = Null
  /\ last = [op |-> "Alert", out |-> "Cancel", key |-> "p1"]
  /\ deletingItems = {}
  /\ \A h \in DOMAIN hruns : hruns[h].op \notin DeleteOps
  /\ dbTrips = [id \in TripIds |-> <<FullTrip(id)>>]
  /\ dbPlans = [id \in PlanIds |-> <<PlanRow(id)>>]
  /\ trailCache["t1"] # Null /\ chatCache["t1"] # Null

\* C25: when every fetchTripInfo run has returned, loading is false, on
\* whichever path the last run returned.
C25_LoadingEnds ==
  (mounted = "InfoTab" /\ runs = <<>>) => loading = FALSE

\* the last run returned through the catch block and the error view is shown
C25_Witness ==
  /\ mounted = "InfoTab" /\ runs = <<>>
  /\ last = [op |-> "fetchTripInfo", out |-> "threw", key |-> "t1"]
  /\ ~loading /\ View = "error"

\* C26: for a trip on display whose coordinates record is present, with
\* latitude and longitude any numbers, fetchWeather passes its guard and
\* goes on to the cache lookup.
C26_WeatherForEveryLocatedTrip ==
  (tripInfo # Null /\ Val(tripInfo).coordinates # Null)
  => WeatherEntry(tripInfo) = "await"

====
